---------------------------- MODULE Spec2Model ----------------------------
(***************************************************************************)
(* veGiantModel engine/topology.py: ProcessTopology (the mapping between   *)
(* named-axis coordinates and linear ranks) and PipelineParallelGrid (the  *)
(* per-process derivation of every communication group).                   *)
(*                                                                         *)
(* Two specifications share the variables:                                 *)
(*   TopoSpec  ProcessTopology(axes, dims) on arbitrary arguments, then    *)
(*             get_coord / get_rank / world_size queries on the object;    *)
(*   Spec      PipelineParallelGrid(topology) run by the workers of one    *)
(*             job, each worker stepping through its own constructor.      *)
(*                                                                         *)
(* Python values: a list is a sequence, a namedtuple coordinate is the     *)
(* tuple of its values in field (= axes) order, the insertion-ordered dict *)
(* self.mapping is a sequence of [key, rank] entries, None is the handle 0 *)
(* and a raised exception is a non-empty err string.                       *)
(***************************************************************************)
EXTENDS Integers, Sequences, FiniteSets, TLC

VARIABLES args, topology, query, world_size, grid, calls

vars == <<args, topology, query, world_size, grid, calls>>

\* ------------------------------------------------------------------ bounds
\* largest dimension of one axis
MaxDim == 2
\* largest number of processes in the job
MaxWorld == 8
\* largest dimension passed to ProcessTopology on its own
MaxTopoDim == 3
\* largest number of coordinates of a ProcessTopology built on its own
MaxTopoWorld == 12
\* largest number of processes in a job of which one worker is followed
MaxSoloWorld == 17
\* largest dimension of one axis in such a job
MaxSoloDim == 3
\* largest stage id asked of stage_to_global
MaxStage == 5

AxisNames == {"pipe", "data", "model"}

\* ------------------------------------------------------- python built-ins
\* range(n): 0, 1, ..., n-1; empty when n <= 0
range(n) == [i \in 1..(IF n > 0 THEN n ELSE 0) |-> i - 1]

Elems(s) == {s[i] : i \in DOMAIN s}

\* list.index(x): the first position of x (1-based here); 0 when absent
index(s, x) ==
    IF x \in Elems(s) THEN CHOOSE i \in DOMAIN s : s[i] = x /\ \A j \in 1..(i-1) : s[j] # x
    ELSE 0

\* a list left in the order it was given
unsorted(s) == s

\* sorted(list) / list.sort() on integers
sorted(s) == SortSeq(s, LAMBDA a, b : a < b)

max(a, b) == IF a >= b THEN a ELSE b

RECURSIVE SeqProduct(_)
SeqProduct(s) == IF s = <<>> THEN 1 ELSE Head(s) * SeqProduct(Tail(s))

\* itertools.product(*ranges): the tuples in nested-loop order, the last
\* range varying fastest; product() of no ranges yields the empty tuple once
RECURSIVE cartesian_product(_)
cartesian_product(ranges) ==
    IF ranges = <<>> THEN << <<>> >>
    ELSE LET h    == Head(ranges)
             rest == cartesian_product(Tail(ranges))
         IN  [k \in 1..(Len(h) * Len(rest)) |->
                <<h[((k - 1) \div Len(rest)) + 1]>> \o rest[((k - 1) % Len(rest)) + 1]]

\* ------------------------------------------------------- ProcessTopology
NoTopology ==
    [state |-> "None", err |-> "", axes |-> <<>>, dims |-> <<>>, mapping |-> <<>>]

Unbuilt ==
    [state |-> "unbuilt", err |-> "", axes |-> <<>>, dims |-> <<>>, mapping |-> <<>>]

Raised(e) ==
    [state |-> "raised", err |-> e, axes |-> <<>>, dims |-> <<>>, mapping |-> <<>>]

\* self.mapping[key] = global_rank on an insertion-ordered dict
DictPut(m, key, rank) ==
    IF \E i \in DOMAIN m : m[i].key = key
    THEN [i \in DOMAIN m |-> IF m[i].key = key THEN [key |-> key, rank |-> rank] ELSE m[i]]
    ELSE Append(m, [key |-> key, rank |-> rank])

\* CoordKey reading the enumerated tuple in the opposite axis order
CoordKeyReversed(axes, coord) ==
    [i \in DOMAIN axes |-> coord[Len(axes) + 1 - index(axes, axes[i])]]

\* the key of one enumerated coord: {axis: coord[self.axes.index(axis)]}
CoordKey(axes, coord) == [i \in DOMAIN axes |-> coord[index(axes, axes[i])]]

\* BuildMapping numbering the enumerated coordinates from 1 (enumerate(..., 1))
RECURSIVE BuildMappingOneBased(_, _, _, _)
BuildMappingOneBased(axes, coords, n, m) ==
    IF n > Len(coords) THEN m
    ELSE BuildMappingOneBased(axes, coords, n + 1, DictPut(m, CoordKey(axes, coords[n]), n))

RECURSIVE BuildMapping(_, _, _, _)
BuildMapping(axes, coords, n, m) ==
    IF n > Len(coords) THEN m
    ELSE BuildMapping(axes, coords, n + 1, DictPut(m, CoordKey(axes, coords[n]), n - 1))

\* ProcessTopology.__init__(axes, dims)
ProcessTopology(axes, dims) ==
    LET coords == cartesian_product([i \in DOMAIN dims |-> range(dims[i])])
    IN  IF \E i, j \in DOMAIN axes : i # j /\ axes[i] = axes[j]
        THEN Raised("ValueError")      \* namedtuple: duplicate field name
        ELSE IF coords # <<>> /\ Len(axes) > Len(dims)
        THEN Raised("IndexError")      \* coord[self.axes.index(axis)]
        ELSE [state |-> "built", err |-> "", axes |-> axes, dims |-> dims,
              mapping |-> BuildMapping(axes, coords, 1, <<>>)]

\* ProcessTopology.world_size
TopoWorldSize(T) == Len(T.mapping)

\* ProcessTopology.get_dim
get_dim(T, axis) == IF axis \notin Elems(T.axes) THEN 0 ELSE T.dims[index(T.axes, axis)]

\* ProcessTopology.get_coord: the first mapping item whose rank is `rank`
get_coord(T, rank) ==
    IF \E i \in DOMAIN T.mapping : T.mapping[i].rank = rank
    THEN [err |-> "",
          val |-> T.mapping[CHOOSE i \in DOMAIN T.mapping :
                              /\ T.mapping[i].rank = rank
                              /\ \A j \in 1..(i-1) : T.mapping[j].rank # rank].key]
    ELSE [err |-> "ValueError", val |-> <<>>]

\* ProcessTopology.get_rank(**coord_kwargs); kw is a function axis name -> value
get_rank(T, kw) ==
    IF Cardinality(DOMAIN kw) # Len(T.axes)
    THEN [err |-> "ValueError", val |-> -1]
    ELSE IF DOMAIN kw # Elems(T.axes)
    THEN [err |-> "TypeError", val |-> -1]     \* ProcessCoord(**coord_kwargs)
    ELSE LET key == [i \in DOMAIN T.axes |-> kw[T.axes[i]]]
         IN  IF \E i \in DOMAIN T.mapping : T.mapping[i].key = key
             THEN [err |-> "",
                   val |-> T.mapping[CHOOSE i \in DOMAIN T.mapping : T.mapping[i].key = key].rank]
             ELSE [err |-> "NameError", val |-> -1]   \* assert ..., f'key {kwargs} invalid'

\* the keyword form of a coordinate tuple: coord._asdict()
AsDict(T, coord) == [a \in Elems(T.axes) |-> coord[index(T.axes, a)]]


\* ProcessTopology.get_axis_list: ranks, in mapping order, whose key has idx on axis
get_axis_list(T, axis, idx) ==
    LET axis_num == index(T.axes, axis)
        Hit(e)   == e.key[axis_num] = idx
        hits     == SelectSeq(T.mapping, Hit)
    IN  IF axis_num = 0 THEN [err |-> "ValueError", val |-> <<>>]
        ELSE [err |-> "", val |-> [i \in DOMAIN hits |-> hits[i].rank]]

\* self.mapping[key]
MappingAt(T, key) == T.mapping[CHOOSE i \in DOMAIN T.mapping : T.mapping[i].key = key].rank

\* get_axis_comm_lists walking `axis` from its last value down to 0
get_axis_comm_lists_descending(T, axis) ==
    IF axis \notin Elems(T.axes) THEN <<>>
    ELSE LET other_axes == SelectSeq(T.axes, LAMBDA a : a # axis)
             coords     == cartesian_product([i \in DOMAIN other_axes |->
                                                range(get_dim(T, other_axes[i]))])
             Key(coord, axis_key) ==
                 [i \in DOMAIN T.axes |->
                    IF T.axes[i] = axis THEN axis_key
                    ELSE coord[index(other_axes, T.axes[i])]]
         IN  [c \in DOMAIN coords |->
                [k \in 1..get_dim(T, axis) |->
                    MappingAt(T, Key(coords[c], get_dim(T, axis) - k))]]

\* ProcessTopology.get_axis_comm_lists
get_axis_comm_lists(T, axis) ==
    IF axis \notin Elems(T.axes) THEN <<>>
    ELSE LET other_axes == SelectSeq(T.axes, LAMBDA a : a # axis)
             coords     == cartesian_product([i \in DOMAIN other_axes |->
                                                range(get_dim(T, other_axes[i]))])
             Key(coord, axis_key) ==
                 [i \in DOMAIN T.axes |->
                    IF T.axes[i] = axis THEN axis_key
                    ELSE coord[index(other_axes, T.axes[i])]]
         IN  [c \in DOMAIN coords |->
                [k \in 1..get_dim(T, axis) |-> MappingAt(T, Key(coords[c], k - 1))]]

\* filter_match's _filter_helper(x) over the keyword pairs kw, in keyword order:
\* "T" / "F", or "E" when getattr(x, key) names no field of the coordinate
RECURSIVE _filter_helper(_, _, _)
_filter_helper(T, x, kw) ==
    IF kw = <<>> THEN "T"
    ELSE LET key == Head(kw)[1]
             val == Head(kw)[2]
         IN  IF key \notin Elems(T.axes) THEN "E"
             ELSE IF x[index(T.axes, key)] # val THEN "F"
             ELSE _filter_helper(T, x, Tail(kw))

\* ProcessTopology.filter_match(**filter_kwargs); kw is the sequence of <<key, val>>
filter_match(T, kw) ==
    LET res    == [i \in DOMAIN T.mapping |-> _filter_helper(T, T.mapping[i].key, kw)]
        Keep(e) == _filter_helper(T, e.key, kw) = "T"
        hits   == SelectSeq(T.mapping, Keep)
    IN  IF \E i \in DOMAIN res : res[i] = "E"
        THEN [err |-> "AttributeError", val |-> <<>>]
        ELSE [err |-> "", val |-> [i \in DOMAIN hits |-> hits[i].rank]]

\* _prime_factors(N), N >= 1
RECURSIVE _prime_factors(_)
_prime_factors(N) ==
    IF N = 1 THEN <<>>
    ELSE LET candidate == CHOOSE c \in 2..N : N % c = 0 /\ \A d \in 2..(c-1) : N % d # 0
         IN  <<candidate>> \o _prime_factors(N \div candidate)

\* PipeDataParallelTopology.__init__
PipeDataParallelTopology(num_pp, num_dp) == ProcessTopology(<<"pipe", "data">>, <<num_pp, num_dp>>)

\* the alternation counting the primes from 1 instead of 0
RECURSIVE AlternateProductOneBased(_, _, _)
AlternateProductOneBased(primes, idx, parity) ==
    IF idx > Len(primes) THEN 1
    ELSE (IF idx % 2 = parity THEN primes[idx] ELSE 1)
         * AlternateProductOneBased(primes, idx + 1, parity)

\* the topology PipelineParallelGrid.__init__ builds when none is supplied
RECURSIVE AlternateProduct(_, _, _)
AlternateProduct(primes, idx, parity) ==
    IF idx > Len(primes) THEN 1
    ELSE (IF (idx - 1) % 2 = parity THEN primes[idx] ELSE 1)
         * AlternateProduct(primes, idx + 1, parity)

DefaultTopology(ws) ==
    LET primes == _prime_factors(ws)
    IN  PipeDataParallelTopology(AlternateProduct(primes, 1, 0), AlternateProduct(primes, 1, 1))

\* -------------------------------------------------- PipelineParallelGrid
\* The attributes of one PipelineParallelGrid under construction.  pc is the
\* constructor's position; a handle is the 1-based position of the
\* dist.new_group call that returned it in the process's call record (0: None).
NewGrid(rank) ==
    [pc |-> "setup", err |-> "", global_rank |-> rank, _topo |-> NoTopology,
     data_parallel_size |-> 0, pipe_parallel_size |-> 0, model_parallel_size |-> 0,
     stage_id |-> -1, data_parallel_id |-> -1, model_parallel_id |-> -1,
     slice_parallel_src_id |-> -1,
     ds_model_proc_group |-> 0, ds_model_world_size |-> 0, ds_model_rank |-> -1,
     dp_group |-> <<>>, dp_groups |-> <<>>, dp_proc_group |-> 0,
     is_first_stage |-> FALSE, is_last_stage |-> FALSE,
     p2p_groups |-> <<>>,
     send_grads_src_rank |-> -1, recv_grads_src_rank |-> -1,
     send_grads_group |-> <<>>, recv_grads_group |-> <<>>,
     send_grads_proc_group |-> 0, recv_grads_proc_group |-> 0,
     grads_proc_groups |-> <<>>,
     send_activation_src_rank |-> -1, recv_activation_src_rank |-> -1,
     send_activation_group |-> <<>>, recv_activation_group |-> <<>>,
     send_activation_proc_group |-> 0, recv_activation_proc_group |-> 0,
     activation_proc_groups |-> <<>>,
     pp_group |-> <<>>, pp_proc_group |-> 0, pipe_groups |-> <<>>,
     slice_group |-> <<>>, slice_proc_group |-> 0,
     mp_group |-> <<>>, model_groups |-> <<>>]

\* an exception leaving the constructor
Fail(g, e) == [g EXCEPT !.pc = "failed", !.err = e]

\* the outcome of one constructor step: the attributes and the call record
Out(g, cs) == [g |-> g, calls |-> cs]

\* dist.new_group(ranks=ranks) issued at `site` (loop position `at`)
new_group(cs, ranks, site, at) == Append(cs, [ranks |-> ranks, site |-> site, at |-> at])

\* _is_grid_valid counting only the pipe and data sizes, not every axis
_is_grid_valid_pipe_data(T, ws) ==
    max(get_dim(T, "pipe"), 1) * max(get_dim(T, "data"), 1) = ws

\* PipelineParallelGrid._is_grid_valid
_is_grid_valid(T, ws) ==
    SeqProduct([i \in DOMAIN T.axes |-> get_dim(T, T.axes[i])]) = ws

\* stage_to_global dropping the keyword overrides
stage_to_global_pipe_only(T, global_rank, stage_id, kw) ==
    LET me == get_coord(T, global_rank)
    IN  IF me.err # "" THEN [err |-> me.err, val |-> -1]
        ELSE IF ~((DOMAIN kw \cup {"pipe"}) \subseteq Elems(T.axes))
        THEN [err |-> "ValueError", val |-> -1]
        ELSE get_rank(T, [a \in Elems(T.axes) |->
                            IF a = "pipe" THEN stage_id ELSE me.val[index(T.axes, a)]])

\* PipelineParallelGrid.stage_to_global(stage_id, **kwargs); kw: axis name -> value
stage_to_global(T, global_rank, stage_id, kw) ==
    LET me == get_coord(T, global_rank)
    IN  IF me.err # "" THEN [err |-> me.err, val |-> -1]
        ELSE IF ~((DOMAIN kw \cup {"pipe"}) \subseteq Elems(T.axes))
        THEN [err |-> "ValueError", val |-> -1]      \* _replace: unexpected field names
        ELSE get_rank(T, [a \in Elems(T.axes) |->
                            IF a \in DOMAIN kw THEN kw[a]
                            ELSE IF a = "pipe" THEN stage_id
                            ELSE me.val[index(T.axes, a)]])

\* PipelineParallelGrid.get_src_parallel_src_id
get_src_parallel_src_id(T, global_rank, stage_id, data_parallel_id) ==
    IF "model" \notin Elems(T.axes) THEN [err |-> "", val |-> 0]
    ELSE stage_to_global(T, global_rank, stage_id,
                         [a \in {"data", "model"} |-> IF a = "data" THEN data_parallel_id ELSE 0])

\* __init__, lines 279-305: resolve the topology, sizes, validity, identity
SetupGrid(g, supplied, ws) ==
    LET T  == IF supplied.state = "None" THEN DefaultTopology(ws) ELSE supplied
        g1 == [g EXCEPT !._topo = T,
                        !.data_parallel_size  = max(get_dim(T, "data"), 1),
                        !.pipe_parallel_size  = max(get_dim(T, "pipe"), 1),
                        !.model_parallel_size = max(get_dim(T, "model"), 1)]
        me == get_coord(T, g.global_rank)
    IN  IF ~_is_grid_valid(T, ws) THEN Fail(g1, "AssertionError: Invalid Grid")
        ELSE IF me.err # "" THEN Fail(g1, me.err)
        ELSE IF "pipe" \notin Elems(T.axes) THEN Fail(g1, "AttributeError")
        ELSE IF "data" \notin Elems(T.axes)
        THEN Fail([g1 EXCEPT !.stage_id = me.val[index(T.axes, "pipe")]], "AttributeError")
        ELSE LET stage == me.val[index(T.axes, "pipe")]
                 data  == me.val[index(T.axes, "data")]
                 model == IF "model" \in Elems(T.axes) THEN me.val[index(T.axes, "model")] ELSE 0
                 src   == get_src_parallel_src_id(T, g.global_rank, stage, data)
                 g2    == [g1 EXCEPT !.stage_id = stage, !.data_parallel_id = data,
                                     !.model_parallel_id = model]
             IN  IF src.err # "" THEN Fail(g2, src.err)
                 ELSE [g2 EXCEPT !.slice_parallel_src_id = src.val, !.pc = "ds_model"]

\* __init__, lines 312-324: one pass of the DeepSpeed model group loop
DsModelStep(g, cs, dp) ==
    LET lst == get_axis_list(g._topo, "data", dp)
        ranks == sorted(lst.val)
        cs2 == new_group(cs, ranks, "ds_model", <<dp>>)
    IN  IF lst.err # "" THEN Out(Fail(g, lst.err), cs)
        ELSE IF g.global_rank \in Elems(ranks)
        THEN Out([g EXCEPT !.ds_model_proc_group = Len(cs2),
                           !.ds_model_world_size = Len(ranks),
                           !.ds_model_rank = index(ranks, g.global_rank) - 1], cs2)
        ELSE Out(g, cs2)

RECURSIVE DsModelLoop(_, _, _)
DsModelLoop(g, cs, dps) ==
    IF dps = <<>> \/ g.pc = "failed" THEN Out(g, cs)
    ELSE LET o == DsModelStep(g, cs, Head(dps))
         IN  DsModelLoop(o.g, o.calls, Tail(dps))

\* __init__, lines 310-326
BuildDsModelGroups(g, cs) ==
    LET o == DsModelLoop([g EXCEPT !.ds_model_proc_group = 0, !.ds_model_rank = -1],
                         cs, range(g.data_parallel_size))
    IN  IF o.g.pc = "failed" THEN o
        ELSE IF ~(o.g.ds_model_rank > -1) \/ o.g.ds_model_proc_group = 0
        THEN Out(Fail(o.g, "AssertionError"), o.calls)
        ELSE Out([o.g EXCEPT !.pc = "dp"], o.calls)

\* DpStep creating the group only on the ranks that belong to it
DpStepMembersOnly(g, cs, grp) ==
    IF g.global_rank \in Elems(grp)
    THEN LET cs2 == new_group(cs, grp, "dp", <<>>)
         IN  Out([g EXCEPT !.dp_group = grp, !.dp_proc_group = Len(cs2)], cs2)
    ELSE Out(g, cs)

\* DpStep recording every group, member or not
DpStepKeepLast(g, cs, grp) ==
    LET cs2 == new_group(cs, grp, "dp", <<>>)
    IN  Out([g EXCEPT !.dp_group = grp, !.dp_proc_group = Len(cs2)], cs2)

\* __init__, lines 331-337: one pass of the data parallel group loop
DpStep(g, cs, grp) ==
    LET cs2 == new_group(cs, grp, "dp", <<>>)
    IN  IF g.global_rank \in Elems(grp)
        THEN Out([g EXCEPT !.dp_group = grp, !.dp_proc_group = Len(cs2)], cs2)
        ELSE Out(g, cs2)

RECURSIVE DpLoop(_, _, _)
DpLoop(g, cs, groups) ==
    IF groups = <<>> THEN Out(g, cs)
    ELSE LET o == DpStep(g, cs, Head(groups))
         IN  DpLoop(o.g, o.calls, Tail(groups))

\* __init__, lines 328-340
BuildDpGroups(g, cs) ==
    LET groups == get_axis_comm_lists(g._topo, "data")
        o == DpLoop([g EXCEPT !.dp_group = <<>>, !.dp_groups = groups], cs, groups)
    IN  Out([o.g EXCEPT !.is_first_stage = (g.stage_id = 0),
                        !.is_last_stage = (g.stage_id = g.pipe_parallel_size - 1),
                        !.pc = "p2p"], o.calls)

\* P2PPair taking the buddy from the rank's own stage
P2PPairOwnStage(comm_lists, rank, pipe_parallel_size) ==
    LET n   == CHOOSE i \in DOMAIN comm_lists :
                  /\ rank \in Elems(comm_lists[i])
                  /\ \A j \in 1..(i-1) : rank \notin Elems(comm_lists[j])
        l   == comm_lists[n]
        idx == index(l, rank) - 1
    IN  <<rank, l[(idx % pipe_parallel_size) + 1]>>

\* _build_p2p_groups: the [rank, buddy_rank] of `rank` from the first list holding it
P2PPair(comm_lists, rank, pipe_parallel_size) ==
    LET n   == CHOOSE i \in DOMAIN comm_lists :
                  /\ rank \in Elems(comm_lists[i])
                  /\ \A j \in 1..(i-1) : rank \notin Elems(comm_lists[j])
        l   == comm_lists[n]
        idx == index(l, rank) - 1
    IN  <<rank, l[((idx + 1) % pipe_parallel_size) + 1]>>

\* PipelineParallelGrid._build_p2p_groups
_build_p2p_groups(g, ws) ==
    LET comm_lists == get_axis_comm_lists(g._topo, "pipe")
        InSome(r)  == \E i \in DOMAIN comm_lists : r \in Elems(comm_lists[i])
        found      == SelectSeq(range(ws), InSome)
    IN  IF ws > 0 /\ \E i \in DOMAIN comm_lists : Len(comm_lists[i]) # g.pipe_parallel_size
        THEN Fail(g, "AssertionError")
        ELSE IF Len(found) # ws THEN Fail(g, "AssertionError")
        ELSE [g EXCEPT !.p2p_groups =
                          [i \in DOMAIN found |-> P2PPair(comm_lists, found[i], g.pipe_parallel_size)],
                       !.pc = "grads1"]

\* KeepGradsGroup taking the receive group from the wrong neighbour stage
KeepGradsGroupWrongNeighbour(g, dp_id, stage, src_rank, group, handle) ==
    IF stage = g.stage_id /\ g.data_parallel_id = dp_id
    THEN [g EXCEPT !.send_grads_src_rank = src_rank, !.send_grads_group = group,
                   !.send_grads_proc_group = handle]
    ELSE IF stage = g.stage_id - 1 /\ g.data_parallel_id = dp_id
    THEN [g EXCEPT !.recv_grads_src_rank = src_rank, !.recv_grads_group = group,
                   !.recv_grads_proc_group = handle]
    ELSE g

\* _build_grads_groups, lines 461-469: which attributes keep the new group
KeepGradsGroup(g, dp_id, stage, src_rank, group, handle) ==
    IF stage = g.stage_id /\ g.data_parallel_id = dp_id
    THEN [g EXCEPT !.send_grads_src_rank = src_rank, !.send_grads_group = group,
                   !.send_grads_proc_group = handle]
    ELSE IF stage = g.stage_id + 1 /\ g.data_parallel_id = dp_id
    THEN [g EXCEPT !.recv_grads_src_rank = src_rank, !.recv_grads_group = group,
                   !.recv_grads_proc_group = handle]
    ELSE g

\* _build_grads_groups, lines 446-469: the loop body for one (dp_id, stage)
GradsStep(g, cs, dp_id, stage) ==
    LET prev_stage == stage - 1
        src  == filter_match(g._topo, << <<"data", dp_id>>, <<"pipe", stage>>, <<"model", 0>> >>)
        prev == filter_match(g._topo, << <<"data", dp_id>>, <<"pipe", prev_stage>> >>)
        grads_group == sorted(<<src.val[1]>> \o prev.val)
        cs2 == new_group(cs, grads_group, "grads", <<dp_id, stage>>)
    IN  IF ~(prev_stage > -1) THEN Out(g, cs)
        ELSE IF src.err # "" THEN Out(Fail(g, src.err), cs)
        ELSE IF src.val = <<>> THEN Out(Fail(g, "IndexError"), cs)
        ELSE IF prev.err # "" THEN Out(Fail(g, prev.err), cs)
        ELSE Out(KeepGradsGroup([g EXCEPT !.grads_proc_groups = Append(@, Len(cs2))],
                                dp_id, stage, src.val[1], grads_group, Len(cs2)), cs2)

RECURSIVE GradsLoop(_, _, _)
GradsLoop(g, cs, pairs) ==
    IF pairs = <<>> \/ g.pc = "failed" THEN Out(g, cs)
    ELSE LET o == GradsStep(g, cs, Head(pairs)[1], Head(pairs)[2])
         IN  GradsLoop(o.g, o.calls, Tail(pairs))

\* PipelineParallelGrid._build_grads_groups
_build_grads_groups(g, cs) ==
    GradsLoop([g EXCEPT !.send_grads_src_rank = -1, !.recv_grads_src_rank = -1,
                        !.send_grads_group = <<>>, !.recv_grads_group = <<>>,
                        !.send_grads_proc_group = 0, !.recv_grads_proc_group = 0,
                        !.grads_proc_groups = <<>>],
              cs,
              cartesian_product(<<range(g.data_parallel_size), range(g.pipe_parallel_size)>>))

\* KeepActivationGroup taking the receive group from the wrong neighbour stage
KeepActivationGroupWrongNeighbour(g, dp_id, stage, src_rank, group, handle) ==
    IF stage = g.stage_id /\ g.data_parallel_id = dp_id
    THEN [g EXCEPT !.send_activation_src_rank = src_rank, !.send_activation_group = group,
                   !.send_activation_proc_group = handle]
    ELSE IF stage = g.stage_id + 1 /\ g.data_parallel_id = dp_id
    THEN [g EXCEPT !.recv_activation_src_rank = src_rank, !.recv_activation_group = group,
                   !.recv_activation_proc_group = handle]
    ELSE g

\* _build_activation_groups, lines 501-508: which attributes keep the new group
KeepActivationGroup(g, dp_id, stage, src_rank, group, handle) ==
    IF stage = g.stage_id /\ g.data_parallel_id = dp_id
    THEN [g EXCEPT !.send_activation_src_rank = src_rank, !.send_activation_group = group,
                   !.send_activation_proc_group = handle]
    ELSE IF stage = g.stage_id - 1 /\ g.data_parallel_id = dp_id
    THEN [g EXCEPT !.recv_activation_src_rank = src_rank, !.recv_activation_group = group,
                   !.recv_activation_proc_group = handle]
    ELSE g

\* _build_activation_groups, lines 487-508: the loop body for one (dp_id, stage)
ActivationStep(g, cs, dp_id, stage) ==
    LET next_stage == stage + 1
        src  == filter_match(g._topo, << <<"data", dp_id>>, <<"pipe", stage>>, <<"model", 0>> >>)
        next == filter_match(g._topo, << <<"data", dp_id>>, <<"pipe", next_stage>> >>)
        activation_group == sorted(<<src.val[1]>> \o next.val)
        cs2 == new_group(cs, activation_group, "activation", <<dp_id, stage>>)
    IN  IF ~(next_stage < g.pipe_parallel_size) THEN Out(g, cs)
        ELSE IF src.err # "" THEN Out(Fail(g, src.err), cs)
        ELSE IF src.val = <<>> THEN Out(Fail(g, "IndexError"), cs)
        ELSE IF next.err # "" THEN Out(Fail(g, next.err), cs)
        ELSE Out(KeepActivationGroup([g EXCEPT !.activation_proc_groups = Append(@, Len(cs2))],
                                     dp_id, stage, src.val[1], activation_group, Len(cs2)), cs2)

RECURSIVE ActivationLoop(_, _, _)
ActivationLoop(g, cs, pairs) ==
    IF pairs = <<>> \/ g.pc = "failed" THEN Out(g, cs)
    ELSE LET o == ActivationStep(g, cs, Head(pairs)[1], Head(pairs)[2])
         IN  ActivationLoop(o.g, o.calls, Tail(pairs))

\* PipelineParallelGrid._build_activation_groups
_build_activation_groups(g, cs) ==
    ActivationLoop([g EXCEPT !.send_activation_src_rank = -1, !.recv_activation_src_rank = -1,
                             !.send_activation_group = <<>>, !.recv_activation_group = <<>>,
                             !.send_activation_proc_group = 0, !.recv_activation_proc_group = 0,
                             !.activation_proc_groups = <<>>],
                   cs,
                   cartesian_product(<<range(g.data_parallel_size), range(g.pipe_parallel_size)>>))

\* __init__, lines 354-364: one pass of the pipeline group loop
PipeStep(g, cs, ranks) ==
    LET cs2 == new_group(cs, ranks, "pipe", <<>>)
    IN  IF g.global_rank \in Elems(ranks)
        THEN Out([g EXCEPT !.pp_group = ranks, !.pp_proc_group = Len(cs2)], cs2)
        ELSE Out(g, cs2)

RECURSIVE PipeLoop(_, _, _)
PipeLoop(g, cs, groups) ==
    IF groups = <<>> THEN Out(g, cs)
    ELSE LET o == PipeStep(g, cs, Head(groups))
         IN  PipeLoop(o.g, o.calls, Tail(groups))

\* __init__, lines 350-365
BuildPipeGroups(g, cs) ==
    LET groups == get_axis_comm_lists(g._topo, "pipe")
        o == PipeLoop([g EXCEPT !.pp_group = <<>>, !.pp_proc_group = 0, !.pipe_groups = groups],
                      cs, groups)
    IN  IF o.g.pp_proc_group = 0 THEN Out(Fail(o.g, "AssertionError"), o.calls)
        ELSE Out([o.g EXCEPT !.pc = "slice"], o.calls)

\* __init__, lines 373-378 and 383-389: one pass of the slice group loop
SliceStep(g, cs, ranks) ==
    LET cs2 == new_group(cs, ranks, "slice", <<>>)
    IN  IF g.global_rank \in Elems(ranks)
        THEN Out([g EXCEPT !.slice_group = ranks, !.slice_proc_group = Len(cs2)], cs2)
        ELSE Out(g, cs2)

RECURSIVE SliceLoop(_, _, _)
SliceLoop(g, cs, groups) ==
    IF groups = <<>> THEN Out(g, cs)
    ELSE LET o == SliceStep(g, cs, Head(groups))
         IN  SliceLoop(o.g, o.calls, Tail(groups))

\* __init__, lines 372-389
BuildSliceGroups(g, cs, ws) ==
    LET o == IF g.model_parallel_size = 1
             THEN SliceLoop(g, cs, [i \in 1..ws |-> <<i - 1>>])
             ELSE LET groups == get_axis_comm_lists(g._topo, "model")
                  IN  SliceLoop([g EXCEPT !.mp_group = <<>>, !.model_groups = groups], cs, groups)
    IN  Out([o.g EXCEPT !.pc = "done"], o.calls)

\* ------------------------------------------------------------ the inputs
\* sequences over S of length 1..n
SeqsUpTo(S, n) == UNION {[1..k -> S] : k \in 1..n}

\* axes lists without a repeated name
DistinctAxes == {a \in SeqsUpTo(AxisNames, Cardinality(AxisNames)) :
                    \A i, j \in DOMAIN a : i # j => a[i] # a[j]}

\* any two (or one) of the job's workers, named by their ranks
WorkerSets(ws) == {{a, b} : a, b \in 0..(ws - 1)}

NoQuery ==
    [op |-> "none", in_rank |-> -1, in_coord |-> <<>>, in_axis |-> "", in_stage |-> -1,
     out_rank |-> -1, out_coord |-> <<>>, out_lists |-> <<>>, err |-> ""]

\* ------------------------------------ Spec: PipelineParallelGrid.__init__
\* The job: a world size, the topology argument every worker passes (an object
\* satisfying the ProcessTopology contract, or None), and the workers followed.
Init ==
    /\ query = NoQuery
    /\ world_size \in 1..MaxWorld
    /\ \/ /\ args = [axes |-> <<>>, dims |-> <<>>]
          /\ topology = NoTopology
       \/ \E axes \in DistinctAxes : \E dims \in [DOMAIN axes -> 1..MaxDim] :
            /\ args = [axes |-> axes, dims |-> dims]
            /\ topology = ProcessTopology(axes, dims)
    /\ \E W \in WorkerSets(world_size) :
            /\ grid = [w \in W |-> NewGrid(w)]
            /\ calls = [w \in W |-> <<>>]

Step(w, o) ==
    /\ grid' = [grid EXCEPT ![w] = o.g]
    /\ calls' = [calls EXCEPT ![w] = o.calls]
    /\ UNCHANGED <<args, topology, query, world_size>>

Setup ==
    \E w \in DOMAIN grid :
        /\ grid[w].pc = "setup"
        /\ Step(w, Out(SetupGrid(grid[w], topology, world_size), calls[w]))

DsModelGroups ==
    \E w \in DOMAIN grid :
        /\ grid[w].pc = "ds_model"
        /\ Step(w, BuildDsModelGroups(grid[w], calls[w]))

DpGroups ==
    \E w \in DOMAIN grid :
        /\ grid[w].pc = "dp"
        /\ Step(w, BuildDpGroups(grid[w], calls[w]))

P2PGroups ==
    \E w \in DOMAIN grid :
        /\ grid[w].pc = "p2p"
        /\ Step(w, Out(_build_p2p_groups(grid[w], world_size), calls[w]))

\* after a builder returns normally the constructor moves on to `next`
Then(o, next) == IF o.g.pc = "failed" THEN o ELSE Out([o.g EXCEPT !.pc = next], o.calls)

GradsGroups ==
    \E w \in DOMAIN grid :
        /\ grid[w].pc \in {"grads1", "grads2"}
        /\ Step(w, Then(_build_grads_groups(grid[w], calls[w]),
                        IF grid[w].pc = "grads1" THEN "activation1" ELSE "activation2"))

ActivationGroups ==
    \E w \in DOMAIN grid :
        /\ grid[w].pc \in {"activation1", "activation2"}
        /\ Step(w, Then(_build_activation_groups(grid[w], calls[w]),
                        IF grid[w].pc = "activation1" THEN "grads2" ELSE "pipe"))

PipeGroups ==
    \E w \in DOMAIN grid :
        /\ grid[w].pc = "pipe"
        /\ Step(w, BuildPipeGroups(grid[w], calls[w]))

SliceGroups ==
    \E w \in DOMAIN grid :
        /\ grid[w].pc = "slice"
        /\ Step(w, BuildSliceGroups(grid[w], calls[w], world_size))

Next ==
    \/ Setup
    \/ DsModelGroups
    \/ DpGroups
    \/ P2PGroups
    \/ GradsGroups
    \/ ActivationGroups
    \/ PipeGroups
    \/ SliceGroups

Spec == Init /\ [][Next]_vars

\* ------------------------- SoloSpec: one grid and the queries made of it
\* One worker of a job of up to MaxSoloWorld processes constructs its grid and,
\* once constructed, is asked stage_to_global.  The topology passed is None or
\* one of at most MaxSoloWorld coordinates.
SoloInit ==
    /\ query = NoQuery
    /\ world_size \in 1..MaxSoloWorld
    /\ \/ /\ args = [axes |-> <<>>, dims |-> <<>>]
          /\ topology = NoTopology
       \/ \E axes \in DistinctAxes : \E dims \in [DOMAIN axes -> 1..MaxSoloDim] :
            /\ SeqProduct(dims) <= MaxSoloWorld
            /\ args = [axes |-> axes, dims |-> dims]
            /\ topology = ProcessTopology(axes, dims)
    /\ \E w \in 0..(world_size - 1) :
            /\ grid = [v \in {w} |-> NewGrid(w)]
            /\ calls = [v \in {w} |-> <<>>]

\* the stage ids asked for: every stage of the pipeline and ids beyond it
QueryStages == (-1)..MaxStage

\* the keyword overrides passed, in range and beyond it: none, data or model
\* alone, or data with model=0 as get_src_parallel_src_id passes them
QueryOverrides ==
    UNION {[S -> 0..MaxSoloDim] : S \in {{}, {"data"}, {"model"}}}
        \cup {[a \in {"data", "model"} |-> IF a = "data" THEN d ELSE 0] : d \in 0..MaxSoloDim}

CallStageToGlobal ==
    \E w \in DOMAIN grid : \E stage_id \in QueryStages : \E kw \in QueryOverrides :
        /\ grid[w].pc = "done" /\ query.op = "none"
        /\ LET r == stage_to_global(grid[w]._topo, grid[w].global_rank, stage_id, kw)
           IN  query' = [NoQuery EXCEPT !.op = "stage_to_global", !.in_rank = w,
                                        !.in_stage = stage_id, !.in_coord = kw,
                                        !.out_rank = r.val, !.err = r.err]
        /\ UNCHANGED <<args, topology, world_size, grid, calls>>

SoloNext ==
    \/ Setup
    \/ DsModelGroups
    \/ DpGroups
    \/ P2PGroups
    \/ GradsGroups
    \/ ActivationGroups
    \/ PipeGroups
    \/ SliceGroups
    \/ CallStageToGlobal

SoloSpec == SoloInit /\ [][SoloNext]_vars

\* ------------------------------------------- TopoSpec: ProcessTopology
\* the values a caller may pass as one dimension
DimValues == (-1)..MaxTopoDim

\* the dimension lists a caller may pass: at most MaxTopoWorld coordinates
DimLists ==
    {d \in SeqsUpTo(DimValues, Cardinality(AxisNames)) :
        SeqProduct([i \in DOMAIN d |-> max(d[i], 1)]) <= MaxTopoWorld}

TopoInit ==
    /\ args \in [axes : SeqsUpTo(AxisNames, Cardinality(AxisNames)),
                 dims : DimLists]
    /\ topology = Unbuilt
    /\ query = NoQuery
    /\ world_size = 0
    /\ grid = <<>>
    /\ calls = <<>>

NewProcessTopology ==
    /\ topology.state = "unbuilt"
    /\ topology' = ProcessTopology(args.axes, args.dims)
    /\ UNCHANGED <<args, query, world_size, grid, calls>>

\* one call is made on each object built, and at most one call on its result
\* ranks asked for: every rank of the topology and one on either side
QueryRanks(T) == (-1)..TopoWorldSize(T)

\* coordinates asked for: every axis given, values in range and beyond it
QueryCoords(T) == [Elems(T.axes) -> 0..MaxTopoDim]

CallGetCoord ==
    \E r \in QueryRanks(topology) :
        /\ topology.state = "built" /\ query.op = "none"
        /\ LET c == get_coord(topology, r)
           IN  query' = [NoQuery EXCEPT !.op = "get_coord", !.in_rank = r,
                                        !.out_coord = c.val, !.err = c.err]
        /\ UNCHANGED <<args, topology, world_size, grid, calls>>

CallGetRank ==
    \E kw \in QueryCoords(topology) :
        /\ topology.state = "built" /\ query.op = "none"
        /\ LET r == get_rank(topology, kw)
           IN  query' = [NoQuery EXCEPT !.op = "get_rank", !.in_coord = kw,
                                        !.out_rank = r.val, !.err = r.err]
        /\ UNCHANGED <<args, topology, world_size, grid, calls>>

\* get_rank(**get_coord(rank)._asdict())
CallGetRankOfCoord ==
    /\ query.op = "get_coord" /\ query.err = ""
    /\ LET r == get_rank(topology, AsDict(topology, query.out_coord))
       IN  query' = [query EXCEPT !.op = "get_rank(get_coord)", !.out_rank = r.val,
                                  !.err = r.err]
    /\ UNCHANGED <<args, topology, world_size, grid, calls>>

\* get_coord(get_rank(**coord))
CallGetCoordOfRank ==
    /\ query.op = "get_rank" /\ query.err = ""
    /\ LET c == get_coord(topology, query.out_rank)
       IN  query' = [query EXCEPT !.op = "get_coord(get_rank)", !.out_coord = c.val,
                                  !.err = c.err]
    /\ UNCHANGED <<args, topology, world_size, grid, calls>>

\* the exception get_axis_comm_lists(axis) ends with, "" when it returns:
\* self.dims[...] of get_dim past the end of dims, or self.mapping[key] of a
\* coordinate the constructor never numbered
GetAxisCommListsError(T, axis) ==
    IF axis \notin Elems(T.axes) THEN ""
    ELSE LET other_axes == SelectSeq(T.axes, LAMBDA a : a # axis)
             HasDim(a)  == index(T.axes, a) <= Len(T.dims)
         IN  IF \E i \in DOMAIN other_axes : ~HasDim(other_axes[i]) THEN "IndexError"
             ELSE LET coords == cartesian_product([i \in DOMAIN other_axes |->
                                                    range(get_dim(T, other_axes[i]))])
                      Key(coord, axis_key) ==
                          [i \in DOMAIN T.axes |->
                             IF T.axes[i] = axis THEN axis_key
                             ELSE coord[index(other_axes, T.axes[i])]]
                  IN  IF coords = <<>> THEN ""
                      ELSE IF ~HasDim(axis) THEN "IndexError"
                      ELSE IF \E c \in DOMAIN coords : \E k \in 1..get_dim(T, axis) :
                                 \A i \in DOMAIN T.mapping :
                                     T.mapping[i].key # Key(coords[c], k - 1)
                           THEN "KeyError"
                      ELSE ""

CallGetAxisCommLists ==
    \E axis \in AxisNames :
        /\ topology.state = "built" /\ query.op = "none"
        /\ LET e == GetAxisCommListsError(topology, axis)
           IN  query' = [NoQuery EXCEPT !.op = "get_axis_comm_lists", !.in_axis = axis,
                                        !.out_lists = IF e = "" THEN get_axis_comm_lists(topology, axis)
                                                      ELSE <<>>,
                                        !.err = e]
        /\ UNCHANGED <<args, topology, world_size, grid, calls>>

CallWorldSize ==
    /\ topology.state = "built" /\ query.op = "none"
    /\ query' = [NoQuery EXCEPT !.op = "world_size", !.out_rank = TopoWorldSize(topology)]
    /\ UNCHANGED <<args, topology, world_size, grid, calls>>

TopoNext ==
    \/ NewProcessTopology
    \/ CallGetCoord
    \/ CallGetRank
    \/ CallGetRankOfCoord
    \/ CallGetCoordOfRank
    \/ CallGetAxisCommLists
    \/ CallWorldSize

TopoSpec == TopoInit /\ [][TopoNext]_vars

\* ============================================================ properties
\* the value of worker rank r on `axis` in topology T (0 when T has no such axis)
Coord(T, r, axis) ==
    IF axis \in Elems(T.axes) THEN get_coord(T, r).val[index(T.axes, axis)] ELSE 0

World == 0..(world_size - 1)

Workers == DOMAIN grid

Done(w) == grid[w].pc = "done"

Finished(w) == grid[w].pc \in {"done", "failed"}

IsPrefix(a, b) == Len(a) <= Len(b) /\ \A i \in DOMAIN a : a[i] = b[i]

\* the member-rank lists of a call record, in call order
RankLists(cs) == [i \in DOMAIN cs |-> cs[i].ranks]

\* seq lists exactly the members of S in strictly ascending order
IsAscendingListOf(seq, S) ==
    /\ Elems(seq) = S
    /\ \A i, j \in DOMAIN seq : i < j => seq[i] < seq[j]

\* the ranks of the forward-activation group of (data d, stage s)
ActivationMembers(T, d, s) ==
    {r \in World : /\ Coord(T, r, "data") = d
                   /\ \/ Coord(T, r, "pipe") = s /\ Coord(T, r, "model") = 0
                      \/ Coord(T, r, "pipe") = s + 1}

\* the ranks of the backward-gradient group of (data d, stage s)
GradsMembers(T, d, s) ==
    {r \in World : /\ Coord(T, r, "data") = d
                   /\ \/ Coord(T, r, "pipe") = s /\ Coord(T, r, "model") = 0
                      \/ Coord(T, r, "pipe") = s - 1}

\* a topology object was passed to the constructor
Supplied == topology.state = "built"

\* --------------------------------------------------------------------- C1
\* C1: for a fixed topology and world size every worker issues the same
\* sequence of group-creation calls: at any moment the rank lists one worker
\* has passed to new_group are a prefix of another's (or the other way round),
\* and two workers whose constructors have ended, normally or by an
\* exception, ended the same way after the same calls.
C1_SameGroupCreationCalls ==
    \A v, w \in Workers :
        /\ \/ IsPrefix(RankLists(calls[v]), RankLists(calls[w]))
           \/ IsPrefix(RankLists(calls[w]), RankLists(calls[v]))
        /\ (Finished(v) /\ Finished(w)) =>
              /\ RankLists(calls[v]) = RankLists(calls[w])
              /\ grid[v].pc = grid[w].pc

\* two workers of different stages and model shards both completed a
\* construction that issued calls
C1_Witness ==
    \E v, w \in Workers :
        /\ Done(v) /\ Done(w)
        /\ grid[v].stage_id # grid[w].stage_id
        /\ grid[v].model_parallel_id # grid[w].model_parallel_id
        /\ Len(calls[v]) > 2 * world_size

\* --------------------------------------------------------------------- C2
\* C2: on a pipe x data topology that declares no model axis construction
\* completes on every rank, the forward-activation group of (data d, stage s)
\* with a successor stage is {rank(pipe=s,data=d), rank(pipe=s+1,data=d)}, and
\* on axes=[pipe,data], dims=[2,2], world size 4, rank 0 ends with stage_id 0,
\* data_parallel_id 0, is_first_stage, not is_last_stage and the group {0,2}.
C2_PipeDataGridCompletes ==
    \A w \in Workers :
        LET g == grid[w]
            T == g._topo
        IN  (T.state = "built" /\ Elems(T.axes) = {"pipe", "data"}
                /\ _is_grid_valid(T, world_size)) =>
              /\ g.pc # "failed"
              /\ (Done(w) /\ g.stage_id + 1 < g.pipe_parallel_size) =>
                    Elems(g.send_activation_group) =
                        ActivationMembers(T, g.data_parallel_id, g.stage_id)
              /\ (Done(w) /\ T.axes = <<"pipe", "data">> /\ T.dims = <<2, 2>> /\ w = 0) =>
                    /\ g.stage_id = 0 /\ g.data_parallel_id = 0
                    /\ g.is_first_stage /\ ~g.is_last_stage
                    /\ g.send_activation_group = <<0, 2>>

\* --------------------------------------------------------------------- C3
\* the ranks that agree with rank q on every axis of T except `axis`
SameOffAxis(T, q, axis) ==
    {r \in World : \A i \in DOMAIN T.axes :
                      T.axes[i] # axis => Coord(T, r, T.axes[i]) = Coord(T, q, T.axes[i])}

\* the dp_group and its handle are those of the one data-parallel group that
\* holds the worker's own rank
RecordsOwnDpGroup(w) ==
    LET g == grid[w]
    IN  /\ Cardinality({i \in DOMAIN g.dp_groups : w \in Elems(g.dp_groups[i])}) = 1
        /\ \E i \in DOMAIN g.dp_groups : g.dp_groups[i] = g.dp_group /\ w \in Elems(g.dp_group)
        /\ g.dp_proc_group \in DOMAIN calls[w]
        /\ calls[w][g.dp_proc_group].ranks = g.dp_group

C4_ActivationGroups ==
    /\ \A w \in Workers :
          Done(w) =>
            LET g == grid[w]
                T == g._topo
                d == g.data_parallel_id
                s == g.stage_id
            IN  /\ (s + 1 < g.pipe_parallel_size) =>
                      /\ IsAscendingListOf(g.send_activation_group, ActivationMembers(T, d, s))
                      /\ g.send_activation_proc_group \in DOMAIN calls[w]
                      /\ calls[w][g.send_activation_proc_group].ranks = g.send_activation_group
                /\ ~(s + 1 < g.pipe_parallel_size) =>
                      g.send_activation_group = <<>> /\ g.send_activation_proc_group = 0
                /\ (s > 0) =>
                      /\ IsAscendingListOf(g.recv_activation_group, ActivationMembers(T, d, s - 1))
                      /\ g.recv_activation_proc_group \in DOMAIN calls[w]
                      /\ calls[w][g.recv_activation_proc_group].ranks = g.recv_activation_group
                /\ (s = 0) =>
                      g.recv_activation_group = <<>> /\ g.recv_activation_proc_group = 0
    /\ \A v, w \in Workers :
          (/\ Done(v) /\ Done(w)
           /\ grid[v].data_parallel_id = grid[w].data_parallel_id
           /\ grid[w].stage_id = grid[v].stage_id + 1) =>
              /\ grid[w].recv_activation_group = grid[v].send_activation_group
              /\ grid[w].recv_activation_proc_group = grid[v].send_activation_proc_group

\* a sender that is not the model=0 source and a receiver of the next stage
\* hold the same three-or-more-rank activation group
C4_Witness ==
    \E v, w \in Workers :
        /\ Done(v) /\ Done(w)
        /\ grid[v].data_parallel_id = grid[w].data_parallel_id
        /\ grid[w].stage_id = grid[v].stage_id + 1
        /\ grid[v].model_parallel_id > 0
        /\ Len(grid[v].send_activation_group) > 2
        /\ grid[w].recv_activation_group = grid[v].send_activation_group

\* --------------------------------------------------------------------- C5
\* C5: for every (data d, stage s) with s > 0 the backward-gradient group is
\* the ascending list of the rank at (d, s, model=0) and all ranks at
\* (d, s-1); every process at (d, s) holds it as send_grads_group, every
\* process at (d, s-1) holds the same list as recv_grads_group; a first-stage
\* process holds no gradient send group and a last-stage process no gradient
\* receive group.
C5_GradsGroups ==
    /\ \A w \in Workers :
          Done(w) =>
            LET g == grid[w]
                T == g._topo
                d == g.data_parallel_id
                s == g.stage_id
            IN  /\ (s > 0) =>
                      /\ IsAscendingListOf(g.send_grads_group, GradsMembers(T, d, s))
                      /\ g.send_grads_proc_group \in DOMAIN calls[w]
                      /\ calls[w][g.send_grads_proc_group].ranks = g.send_grads_group
                /\ (s = 0) =>
                      g.send_grads_group = <<>> /\ g.send_grads_proc_group = 0
                /\ (s + 1 < g.pipe_parallel_size) =>
                      /\ IsAscendingListOf(g.recv_grads_group, GradsMembers(T, d, s + 1))
                      /\ g.recv_grads_proc_group \in DOMAIN calls[w]
                      /\ calls[w][g.recv_grads_proc_group].ranks = g.recv_grads_group
                /\ ~(s + 1 < g.pipe_parallel_size) =>
                      g.recv_grads_group = <<>> /\ g.recv_grads_proc_group = 0
    /\ \A v, w \in Workers :
          (/\ Done(v) /\ Done(w)
           /\ grid[v].data_parallel_id = grid[w].data_parallel_id
           /\ grid[w].stage_id = grid[v].stage_id - 1) =>
              /\ grid[w].recv_grads_group = grid[v].send_grads_group
              /\ grid[w].recv_grads_proc_group = grid[v].send_grads_proc_group

\* a gradient sender that is not the model=0 source and a receiver of the
\* previous stage hold the same three-or-more-rank gradient group
C5_Witness ==
    \E v, w \in Workers :
        /\ Done(v) /\ Done(w)
        /\ grid[v].data_parallel_id = grid[w].data_parallel_id
        /\ grid[w].stage_id = grid[v].stage_id - 1
        /\ grid[v].model_parallel_id > 0
        /\ Len(grid[v].send_grads_group) > 2
        /\ grid[w].recv_grads_group = grid[v].send_grads_group

\* --------------------------------------------------------------------- C6
\* a kept member list holds the worker's rank
OwnList(w, ranks) == ranks # <<>> => w \in Elems(ranks)

\* a kept handle is that of a group holding the worker's rank
OwnHandle(w, handle) == handle # 0 => w \in Elems(calls[w][handle].ranks)

\* C6: after construction every group whose member list or handle a process
\* keeps (data-parallel, pipeline, model/slice, send/receive activation,
\* send/receive gradient) contains that process's own rank.
C6_KeptGroupsContainOwnRank ==
    \A w \in Workers :
        Done(w) =>
            LET g == grid[w]
            IN  /\ OwnHandle(w, g.ds_model_proc_group)
                /\ OwnList(w, g.dp_group) /\ OwnHandle(w, g.dp_proc_group)
                /\ OwnList(w, g.pp_group) /\ OwnHandle(w, g.pp_proc_group)
                /\ OwnList(w, g.slice_group) /\ OwnHandle(w, g.slice_proc_group)
                /\ OwnList(w, g.send_activation_group)
                /\ OwnHandle(w, g.send_activation_proc_group)
                /\ OwnList(w, g.recv_activation_group)
                /\ OwnHandle(w, g.recv_activation_proc_group)
                /\ OwnList(w, g.send_grads_group) /\ OwnHandle(w, g.send_grads_proc_group)
                /\ OwnList(w, g.recv_grads_group) /\ OwnHandle(w, g.recv_grads_proc_group)

\* --------------------------------------------------------------------- C7
\* the number of new_group calls a worker issued at `site` for loop position `at`
CallCount(w, site, at) ==
    Cardinality({i \in DOMAIN calls[w] : calls[w][i].site = site /\ calls[w][i].at = at})

\* C7: during one construction exactly one forward-activation group creation
\* call is issued for each (data, stage) with a successor stage, exactly one
\* backward-gradient call for each pair with a predecessor stage, and no two
\* calls of one purpose create the same group.
C7_OneCallPerGroup ==
    \A w \in Workers :
        /\ \A i, j \in DOMAIN calls[w] :
              (i # j /\ calls[w][i].site = calls[w][j].site) =>
                  calls[w][i].ranks # calls[w][j].ranks
        /\ Done(w) =>
              \A d \in 0..(grid[w].data_parallel_size - 1) :
              \A s \in 0..(grid[w].pipe_parallel_size - 1) :
                  /\ (s + 1 < grid[w].pipe_parallel_size) =>
                        CallCount(w, "activation", <<d, s>>) = 1
                  /\ (s > 0) => CallCount(w, "grads", <<d, s>>) = 1

\* --------------------------------------------------------------------- C8
\* C8: constructing a grid with a supplied topology whose product of dims
\* differs from world_size fails, on every rank, with the 'Invalid Grid'
\* error, before any group is created, and never yields a grid.
C8_InvalidGridRejected ==
    (Supplied /\ SeqProduct(topology.dims) # world_size) =>
        \A w \in Workers :
            /\ grid[w].pc \in {"setup", "failed"}
            /\ grid[w].pc = "failed" => grid[w].err = "AssertionError: Invalid Grid"
            /\ calls[w] = <<>>

\* two workers were both refused a three-axis topology larger than the world
C8_Witness ==
    /\ Supplied
    /\ Len(topology.axes) = 3
    /\ SeqProduct(topology.dims) > world_size
    /\ \E v, w \in Workers :
          /\ v # w
          /\ grid[v].pc = "failed" /\ grid[v].err = "AssertionError: Invalid Grid"
          /\ grid[w].pc = "failed" /\ grid[w].err = "AssertionError: Invalid Grid"

\* --------------------------------------------------------------------- C9
\* the arguments the ProcessTopology contract forbids
BadArgs ==
    \/ \E i, j \in DOMAIN args.axes : i # j /\ args.axes[i] = args.axes[j]
    \/ Len(args.axes) # Len(args.dims)
    \/ \E i \in DOMAIN args.dims : args.dims[i] <= 0

\* C9: topology construction fails whenever axes contains a duplicate name,
\* the lengths of axes and dims differ, or any dimension is <= 0; no topology
\* object is produced for such input.
C9_BadArgumentsRaise ==
    (BadArgs /\ topology.state # "unbuilt") => topology.state = "raised"

\* -------------------------------------------------------------------- C10
\* the value kw gives every axis lies inside that axis
InRange(T, kw) == \A i \in DOMAIN T.axes : kw[T.axes[i]] \in 0..(T.dims[i] - 1)

\* C10: for every valid (axes, dims), get_rank(get_coord(r)) = r for every
\* rank r in [0, product of dims), get_coord(get_rank(c)) = c for every
\* in-range full coordinate c, and world_size() is the product of dims.
C10_RankCoordInverse ==
    (~BadArgs /\ topology.state # "unbuilt") =>
        /\ topology.state = "built"
        /\ (query.op = "get_coord" /\ query.in_rank \in 0..(SeqProduct(args.dims) - 1)) =>
              query.err = ""
        /\ (query.op = "get_rank(get_coord)"
               /\ query.in_rank \in 0..(SeqProduct(args.dims) - 1)) =>
              query.err = "" /\ query.out_rank = query.in_rank
        /\ (query.op = "get_rank" /\ InRange(topology, query.in_coord)) =>
              query.err = "" /\ query.out_rank \in 0..(SeqProduct(args.dims) - 1)
        /\ (query.op = "get_coord(get_rank)" /\ InRange(topology, query.in_coord)) =>
              query.err = "" /\ AsDict(topology, query.out_coord) = query.in_coord
        /\ query.op = "world_size" => query.out_rank = SeqProduct(args.dims)

\* the last in-range coordinate of a three-axis topology with unequal
\* dimensions went to its rank and back
C10_Witness ==
    /\ ~BadArgs /\ topology.state = "built"
    /\ Len(args.axes) = 3 /\ args.dims[1] # args.dims[3]
    /\ query.op = "get_coord(get_rank)" /\ query.err = ""
    /\ \A i \in DOMAIN args.axes : query.in_coord[args.axes[i]] = args.dims[i] - 1
    /\ query.out_rank = SeqProduct(args.dims) - 1
    /\ query.out_rank > 2

\* -------------------------------------------------------------------- C11
\* sum over i of c[i] * product of dims[j] for j > i
RECURSIVE RowMajorIndex(_, _)
RowMajorIndex(dims, c) ==
    IF c = <<>> THEN 0
    ELSE Head(c) * SeqProduct(Tail(dims)) + RowMajorIndex(Tail(dims), Tail(c))

\* the values kw gives the axes, in declared axis order
InAxisOrder(T, kw) == [i \in DOMAIN T.axes |-> kw[T.axes[i]]]

\* C11: the rank assigned to a coordinate is its row-major index in declared
\* axis order (first axis slowest, last axis fastest); on two axes of
\* dims [2,3] the coordinate (1,2) has rank 5 and (0,1) has rank 1.
C11_RowMajorRank ==
    (~BadArgs /\ topology.state = "built" /\ query.op = "get_rank"
        /\ InRange(topology, query.in_coord)) =>
        /\ query.err = ""
        /\ query.out_rank = RowMajorIndex(args.dims, InAxisOrder(topology, query.in_coord))
        /\ (args.dims = <<2, 3>> /\ InAxisOrder(topology, query.in_coord) = <<1, 2>>) =>
              query.out_rank = 5
        /\ (args.dims = <<2, 3>> /\ InAxisOrder(topology, query.in_coord) = <<0, 1>>) =>
              query.out_rank = 1

\* get_rank answered 5 for the coordinate (1,2) of a topology of dims [2,3]
C11_Witness ==
    /\ ~BadArgs /\ topology.state = "built"
    /\ args.dims = <<2, 3>>
    /\ query.op = "get_rank" /\ query.err = ""
    /\ InAxisOrder(topology, query.in_coord) = <<1, 2>>
    /\ query.out_rank = 5

\* ------------------------------------------------------------------ C12
\* the values of coordinate `coord` on the axes other than `axis`, in axis order
OtherCoord(T, coord, axis) ==
    LET keep == SelectSeq([i \in DOMAIN T.axes |-> i], LAMBDA i : T.axes[i] # axis)
    IN  [j \in DOMAIN keep |-> coord[keep[j]]]

\* C12: for every declared axis of a valid topology get_axis_comm_lists(axis)
\* partitions the ranks: the lists are pairwise disjoint, their union is
\* 0..world_size-1, every list has get_dim(axis) entries, the ranks of one list
\* agree on every other axis, the k-th rank of a list has value k on the axis,
\* and the lists come in Cartesian-product (row-major) order of the other axes.
C12_AxisCommListsPartition ==
    (~BadArgs /\ topology.state = "built" /\ query.op = "get_axis_comm_lists"
        /\ query.in_axis \in Elems(topology.axes)) =>
        LET T     == topology
            axis  == query.in_axis
            lists == query.out_lists
            C(r)  == get_coord(T, r).val
        IN  /\ query.err = ""
            /\ \A a, b \in DOMAIN lists : a # b => Elems(lists[a]) \cap Elems(lists[b]) = {}
            /\ UNION {Elems(lists[a]) : a \in DOMAIN lists} = 0..(TopoWorldSize(T) - 1)
            /\ \A a \in DOMAIN lists :
                 /\ Len(lists[a]) = get_dim(T, axis)
                 /\ \A i, j \in DOMAIN lists[a] :
                      OtherCoord(T, C(lists[a][i]), axis) = OtherCoord(T, C(lists[a][j]), axis)
                 /\ \A i \in DOMAIN lists[a] : Coord(T, lists[a][i], axis) = i - 1
                 /\ \A i \in DOMAIN lists[a] :
                      RowMajorIndex(OtherCoord(T, T.dims, axis),
                                    OtherCoord(T, C(lists[a][i]), axis)) = a - 1

\* three lists of two ranks each were returned for the middle axis of a
\* three-axis topology
C12_Witness ==
    /\ ~BadArgs /\ topology.state = "built" /\ query.op = "get_axis_comm_lists"
    /\ Len(topology.axes) = 3 /\ query.in_axis = topology.axes[2]
    /\ query.err = "" /\ Len(query.out_lists) = 3
    /\ \A a \in DOMAIN query.out_lists : Len(query.out_lists[a]) = 2

\* ------------------------------------------------------------------ C13
\* the grid queried and the coordinate stage_to_global was asked to resolve
QueriedTopo == grid[query.in_rank]._topo

AskedCoord(a) ==
    IF a \in DOMAIN query.in_coord THEN query.in_coord[a]
    ELSE IF a = "pipe" THEN query.in_stage
    ELSE Coord(QueriedTopo, query.in_rank, a)

AskedInRange ==
    \A a \in Elems(QueriedTopo.axes) : AskedCoord(a) \in 0..(get_dim(QueriedTopo, a) - 1)

C14_AbsentAxisDefaults ==
    \A w \in Workers :
        (Supplied /\ ~(AxisNames \subseteq Elems(topology.axes))
            /\ _is_grid_valid(topology, world_size) /\ grid[w].pc # "setup") =>
            /\ grid[w].stage_id = Coord(topology, w, "pipe")
            /\ grid[w].data_parallel_id = Coord(topology, w, "data")
            /\ grid[w].model_parallel_id = Coord(topology, w, "model")
            /\ grid[w].pipe_parallel_size = max(get_dim(topology, "pipe"), 1)
            /\ grid[w].data_parallel_size = max(get_dim(topology, "data"), 1)
            /\ grid[w].model_parallel_size = max(get_dim(topology, "model"), 1)

\* ------------------------------------------------------------------ C15
IsPrime(n) == n >= 2 /\ \A d \in 2..(n - 1) : n % d # 0

\* p is the ascending prime factorisation of n, with multiplicity
IsPrimeFactorisation(p, n) ==
    /\ \A i \in DOMAIN p : IsPrime(p[i])
    /\ \A i, j \in DOMAIN p : i < j => p[i] <= p[j]
    /\ SeqProduct(p) = n

\* the product of the entries of p at the 0-based indexes first, first+2, ...
EveryOther(p, first) ==
    SeqProduct([j \in 1..((Len(p) + 1 - first) \div 2) |-> p[2 * j - 1 + first]])

\* C15: when no topology is supplied, for every world size the constructor
\* proceeds on a topology of axes (pipe, data) whose pipe size is the product
\* of the even-indexed and whose data size is the product of the odd-indexed
\* entries of the ascending prime factorisation of the world size; their
\* product is the world size and the validity check passes (17: pipe 17, data 1).
C15_DefaultTopology ==
    \A w \in Workers :
        (topology.state = "None" /\ grid[w].pc # "setup") =>
            LET T == grid[w]._topo
                p == _prime_factors(world_size)
            IN  /\ IsPrimeFactorisation(p, world_size)
                /\ T.state = "built" /\ T.axes = <<"pipe", "data">>
                /\ T.dims = <<EveryOther(p, 0), EveryOther(p, 1)>>
                /\ grid[w].pipe_parallel_size = EveryOther(p, 0)
                /\ grid[w].data_parallel_size = EveryOther(p, 1)
                /\ grid[w].pipe_parallel_size * grid[w].data_parallel_size = world_size
                /\ _is_grid_valid(T, world_size)
                /\ grid[w].err # "AssertionError: Invalid Grid"
                /\ world_size = 17 => T.dims = <<17, 1>>

\* twelve processes and no topology: the primes 2, 2, 3 gave pipe 6 and data 2
C15_Witness ==
    \E w \in Workers :
        /\ topology.state = "None" /\ world_size = 12 /\ grid[w].pc # "setup"
        /\ grid[w]._topo.dims = <<6, 2>>
        /\ grid[w].stage_id = get_coord(grid[w]._topo, w).val[1]

\* ------------------------------------------------------------------ C16
\* _build_p2p_groups has returned its list to worker w
P2PBuilt(w) == grid[w].p2p_groups # <<>>

\* C16: _build_p2p_groups returns wherever the constructor reaches it, and
\* p2p_groups then has world_size entries, entry r being [r, b] with b the
\* rank that agrees with r on every axis but pipe and has pipe coordinate
\* (stage(r) + 1) mod pipe_parallel_size; with one stage b = r.
C16_P2PGroups ==
    \A w \in Workers :
        /\ grid[w].pc = "p2p" => _build_p2p_groups(grid[w], world_size).pc = "grads1"
        /\ P2PBuilt(w) =>
            LET T == grid[w]._topo
                pairs == grid[w].p2p_groups
            IN  /\ Len(pairs) = world_size
                /\ \A r \in World :
                     LET b == pairs[r + 1][2]
                     IN  /\ Len(pairs[r + 1]) = 2
                         /\ pairs[r + 1][1] = r
                         /\ b \in World
                         /\ \A a \in Elems(T.axes) \ {"pipe"} : Coord(T, b, a) = Coord(T, r, a)
                         /\ Coord(T, b, "pipe") =
                                (Coord(T, r, "pipe") + 1) % grid[w].pipe_parallel_size
                         /\ grid[w].pipe_parallel_size = 1 => b = r

\* on a grid of two stages and two model shards the buddy of the last rank,
\* which is in the last stage, is a rank of stage 0
C16_Witness ==
    \E w \in Workers :
        /\ Done(w) /\ P2PBuilt(w)
        /\ grid[w].pipe_parallel_size = 2 /\ grid[w].model_parallel_size = 2
        /\ Coord(grid[w]._topo, world_size - 1, "pipe") = 1
        /\ Coord(grid[w]._topo, grid[w].p2p_groups[world_size][2], "pipe") = 0

\* ------------------------------------------------------------------ C17
\* C17: every rank list a worker passes to dist.new_group while constructing
\* its grid on a valid topology is non-empty and strictly ascending (hence of
\* distinct ranks), and each of its ranks lies in 0..world_size-1.
C17_GroupRankLists ==
    \A w \in Workers :
        (grid[w].pc # "setup" /\ _is_grid_valid(grid[w]._topo, world_size)) =>
            \A c \in DOMAIN calls[w] :
                LET ranks == calls[w][c].ranks
                IN  /\ ranks # <<>>
                    /\ \A i, j \in DOMAIN ranks : i < j => ranks[i] < ranks[j]
                    /\ Elems(ranks) \subseteq World

\* a worker finished on a three-axis grid of eight ranks, having created
\* groups of two, three and four ranks
C17_Witness ==
    \E w \in Workers :
        /\ Done(w) /\ world_size = 8 /\ _is_grid_valid(grid[w]._topo, world_size)
        /\ \A n \in {2, 3, 4} : \E c \in DOMAIN calls[w] : Len(calls[w][c].ranks) = n

====
